---- MODULE Spec2Model ----
(***************************************************************************)
(* secrets-cleaner (src/cleaner.go, the logrus version, lines 191-480):    *)
(* for every secret of a project, disable every ENABLED version except     *)
(* the first listed one, then destroy the DISABLED versions listed beyond  *)
(* position keepVersions.                                                  *)
(*                                                                         *)
(* The Secret Manager store is the environment.  store[s] is the catalog   *)
(* of secret s in the order in which the store lists it; a filtered        *)
(* listing is the subsequence of the versions in the requested state.      *)
(* Every store call either succeeds or fails; a failure ends the process   *)
(* (logrus Fatalf), an index or slice expression out of range panics.      *)
(*                                                                         *)
(* Spec starts from catalogs listed newest first, the order the API        *)
(* documents and the code relies on (comment at lines 282-283).            *)
(* SpecAnyOrder starts from catalogs whose creation times bear no relation *)
(* to the listing order; it serves the statements that quantify over the   *)
(* order of a listing.  Both run the same program.  calls, hist, store0    *)
(* and rerun are history: the program never reads them.  log holds the     *)
(* entries logrus emits: Debug entries only under -debug (lines 406-409).  *)
(* The optional Coralogix hook (lines 423-451) is not modelled.            *)
(***************************************************************************)
EXTENDS Integers, Sequences, FiniteSets, TLC

\* ----------------------------------------------------------------- bounds
\* versions in the whole project (all secrets together)
MaxVersions == 4
\* largest value of the -keepversions flag that is tried
MaxKeep == 2

\* the secrets of the project, in the order listSecrets returns them
SecretNames == <<"s1", "s2">>
SecretSet == {SecretNames[i] : i \in 1..Len(SecretNames)}

\* secretmanagerpb.SecretVersion_State, as far as the program meets it
VersionStates == {"ENABLED", "DISABLED", "DESTROYED"}

\* (seconds, nanos) creation times used by the catalogs
TimeValues == {<<90, 0>>, <<100, 0>>, <<100, 5>>}

\* the values of -project: absent (the default "") or a project name
ProjectValues == {"", "gcp-project"}

\* the values -keepversions takes: flag.IntVar accepts negative numbers too
KeepValues == {0 - 1} \cup (0..MaxKeep)

VARIABLES
  store,            \* secret -> catalog in listing order (records with state)
  store0,           \* the catalog when the current run started
  dryrun,           \* flag -dry-run
  keepVersions,     \* flag -keepversions
  pc,               \* position of the process
  secrets,          \* main: result of listSecrets
  si,               \* main: index of the secret being swept (1-based)
  ph,               \* main: index into sweepPhases of the running call
  versions,         \* disableExceptThelatestVersions: local slice
  versionsDisabled, \* destroyDisabledVersions: local slice
  vi,               \* loop index into the slice being ranged over (1-based)
  calls,            \* every store call of the current run, in order
  hist,             \* per secret: what the current run listed and selected
  rerun,            \* FALSE in the first run, TRUE in the run started after it
  project,          \* flag -project
  debug,            \* flag -debug
  client,           \* main: the Secret Manager client was created
  log               \* the logrus entries emitted in the current run, in order

vars == <<store, store0, dryrun, keepVersions, pc, secrets, si, ph, versions,
          versionsDisabled, vi, calls, hist, rerun, project, debug, client, log>>

\* ---------------------------------------------------------------- helpers
Max(a, b) == IF a >= b THEN a ELSE b

\* type SecretVersion struct { Name; CreateTimeSeconds; CreateTimeNanos }
SecretVersion(rec) ==
  [Name |-> rec.Name,
   CreateTimeSeconds |-> rec.CreateTimeSeconds,
   CreateTimeNanos |-> rec.CreateTimeNanos]

\* (seconds, nanos) of a >= (seconds, nanos) of b
TimeGeq(a, b) ==
  \/ a.CreateTimeSeconds > b.CreateTimeSeconds
  \/ /\ a.CreateTimeSeconds = b.CreateTimeSeconds
     /\ a.CreateTimeNanos >= b.CreateTimeNanos

\* the listing is sorted in reverse by create_time (newest first)
NewestFirst(q) == \A i, j \in 1..Len(q) : i < j => TimeGeq(q[i], q[j])

\* --------------------------------------------------------------- the store
\* seeded fault: the request carries no Filter, every live version is listed
ListSecretVersions_NoFilter(st, s, filter) ==
  LET hit(rec) == rec.state # "DESTROYED"
      sel == SelectSeq(st[s], hit)
  IN [i \in 1..Len(sel) |->
        [Name |-> sel[i].Name,
         CreateTimeSeconds |-> sel[i].CreateTimeSeconds,
         CreateTimeNanos |-> sel[i].CreateTimeNanos]]

\* seeded fault: every listing is answered from the view taken when the
\* run started, not from the versions as they are now
ListSecretVersions_Stale(st, s, filter) ==
  LET hit(rec) == rec.state = filter
      sel == SelectSeq(store0[s], hit)
  IN [i \in 1..Len(sel) |-> SecretVersion(sel[i])]

\* c.ListSecretVersions with Filter "state:<filter>", iterated to Done
ListSecretVersions(st, s, filter) ==
  LET hit(rec) == rec.state = filter
      sel == SelectSeq(st[s], hit)
  IN [i \in 1..Len(sel) |-> SecretVersion(sel[i])]

SetState(st, name, new) ==
  [s \in DOMAIN st |->
     [i \in 1..Len(st[s]) |->
        IF st[s][i].Name = name THEN [st[s][i] EXCEPT !.state = new]
        ELSE st[s][i]]]

\* c.DisableSecretVersion, acknowledged
DisableSecretVersion(st, name) == SetState(st, name, "DISABLED")

\* seeded fault: an EnableSecretVersionRequest is sent instead
DestroySecretVersion_Enables(st, name) == SetState(st, name, "ENABLED")

\* c.DestroySecretVersion, acknowledged
DestroySecretVersion(st, name) == SetState(st, name, "DESTROYED")

Call(op, s, name, ok) == [op |-> op, secret |-> s, version |-> name, ok |-> ok]

NoVersion == <<"none", 0>>

StateOf(st, name) ==
  LET s == name[1]
      i == CHOOSE k \in 1..Len(st[s]) : st[s][k].Name = name
  IN st[s][i].state

CountIn(st, s, state) == Cardinality({i \in 1..Len(st[s]) : st[s][i].state = state})

\* ------------------------------------------------------------- the program
\* seeded fault: main calls destroyDisabledVersions first
sweepPhases_Swapped == <<"destroy", "disable">>

\* main, lines 469-472: the calls made for each secret, in this order
sweepPhases == <<"disable", "destroy">>

\* disableExceptThelatestVersions, line 293: (len(versions) - 1) > 0
hasOthers(vs) == (Len(vs) - 1) > 0

\* seeded fault: the loop ranges over versions, the latest included
othersOf_WholeSlice(vs) == vs

\* seeded fault: versions[:len(versions)-1], as if the store listed oldest first
othersOf_AllButLast(vs) == SubSeq(vs, 1, Len(vs) - 1)

\* seeded fault: only the versions created strictly before versions[0] are
\* ranged over, one created at the same instant is left alone
othersOf_StrictlyOlder(vs) ==
  LET older(v) == ~TimeGeq(v, vs[1]) IN SelectSeq(Tail(vs), older)

\* disableExceptThelatestVersions, line 295: versions[1:]
othersOf(vs) == Tail(vs)

\* destroyDisabledVersions, line 354: len(versionsDisabled) > keepVersions
moreThanKept(vd, keep) == Len(vd) > keep

\* seeded fault: versions[keepVersions:], the slice the disable phase filled
\* is ranged over instead of versionsDisabled
destroySelection_FromEnabled(vd, keep) == SubSeq(versions, keep + 1, Len(versions))

\* seeded fault: versionsDisabled[keepVersions+1:], one version too many is kept
destroySelection_OffByOne(vd, keep) == SubSeq(vd, keep + 2, Len(vd))

\* seeded fault: versionsDisabled[:len-keepVersions], the newest are destroyed
destroySelection_Newest(vd, keep) == SubSeq(vd, 1, Len(vd) - keep)

\* destroyDisabledVersions, line 355: versionsDisabled[keepVersions:]
destroySelection(vd, keep) == SubSeq(vd, keep + 1, Len(vd))

EmptyHist ==
  [s \in SecretSet |->
     [enabled |-> <<>>, disabled |-> <<>>, selDisable |-> <<>>,
      selDestroy |-> <<>>, listedEnabled |-> FALSE, listedDisabled |-> FALSE,
      returned |-> 0]]

\* seeded fault: main ranges over the secrets from the last to the first
cur_Backwards == secrets[Len(secrets) + 1 - si]

\* main, line 469: the secret of the running iteration
cur == secrets[si]
Phase == sweepPhases[ph]

\* the command line flags, constant during a run
flags == <<dryrun, keepVersions, project, debug>>

\* logrus: an entry of level lvl is emitted unless it is a Debug entry and
\* the level was not lowered by -debug (lines 406-409)
Emit(l, lvl, msg, name) ==
  IF lvl # "debug" \/ debug
  THEN Append(l, [level |-> lvl, msg |-> msg, version |-> name])
  ELSE l

\* seeded fault: the slice is a package variable, a call appends to what the
\* call for the previous secret left in it
freshSlice_Kept(old) == old

\* var versions []SecretVersion (lines 268, 337): each call starts from an
\* empty slice, whatever an earlier call left in old
freshSlice(old) == <<>>

\* the call for the current secret returned: main goes on to its next call,
\* to the next secret, or to the end of the run ("Stopping the secrets
\* cleaner", line 475); h and l are hist and log as left by the call
Return(h, l) ==
  /\ hist' = [h EXCEPT ![cur].returned = ph]
  /\ IF ph < Len(sweepPhases)
     THEN /\ ph' = ph + 1
          /\ pc' = "list"
          /\ si' = si
          /\ log' = l
     ELSE /\ ph' = 1
          /\ si' = si + 1
          /\ pc' = IF si < Len(secrets) THEN "list" ELSE "done"
          /\ log' = IF si < Len(secrets) THEN l
                    ELSE Emit(l, "info", "stopping", NoVersion)

\* logrus Fatalf: log and os.Exit(1)
Fatal == pc' = "fatal"

\* main, lines 399-403: no project, usage text and os.Exit(1)
usageExit ==
  /\ pc = "start"
  /\ project = ""
  /\ pc' = "usage"
  /\ UNCHANGED <<store, store0, flags, client, secrets, si, ph, versions,
                 versionsDisabled, vi, calls, hist, rerun, log>>

\* seeded fault: the client is created whether or not a project was given
newClientOk_AnyProject ==
  /\ pc = "start"
  /\ client' = TRUE
  /\ log' = Emit(log, "info", "starting", NoVersion)
  /\ pc' = "listSecrets"
  /\ UNCHANGED <<store, store0, flags, secrets, si, ph, versions,
                 versionsDisabled, vi, calls, hist, rerun>>

\* main, lines 412-457: the client is created, the run is announced
newClientOk ==
  /\ pc = "start"
  /\ project # ""
  /\ client' = TRUE
  /\ log' = Emit(log, "info", "starting", NoVersion)
  /\ pc' = "listSecrets"
  /\ UNCHANGED <<store, store0, flags, secrets, si, ph, versions,
                 versionsDisabled, vi, calls, hist, rerun>>

\* main, lines 413-420: secretmanager.NewClient fails
newClientFail ==
  /\ pc = "start"
  /\ project # ""
  /\ log' = Emit(log, "fatal", "newClientFailed", NoVersion)
  /\ Fatal
  /\ UNCHANGED <<store, store0, flags, client, secrets, si, ph, versions,
                 versionsDisabled, vi, calls, hist, rerun>>

\* listSecrets, lines 238-259, called from main line 460
listSecretsOk ==
  /\ pc = "listSecrets"
  /\ calls' = Append(calls, Call("ListSecrets", "project", NoVersion, TRUE))
  /\ secrets' = SecretNames
  /\ si' = 1
  /\ ph' = 1
  /\ pc' = IF Len(SecretNames) > 0 THEN "list" ELSE "done"
  /\ log' = IF Len(SecretNames) > 0 THEN log
            ELSE Emit(log, "info", "stopping", NoVersion)
  /\ UNCHANGED <<store, store0, flags, client, versions,
                 versionsDisabled, vi, hist, rerun>>

\* listSecrets, lines 245-256: it.Next fails after n secrets were appended
listSecretsFail ==
  /\ pc = "listSecrets"
  /\ \E n \in 0..Len(SecretNames) : secrets' = SubSeq(SecretNames, 1, n)
  /\ calls' = Append(calls, Call("ListSecrets", "project", NoVersion, FALSE))
  /\ log' = Emit(log, "fatal", "listSecretsFailed", NoVersion)
  /\ Fatal
  /\ UNCHANGED <<store, store0, flags, client, si, ph, versions,
                 versionsDisabled, vi, hist, rerun>>

\* disableExceptThelatestVersions, lines 262-293: list the ENABLED versions,
\* name versions[0] in the debug entry, enter the loop over versions[1:]
listEnabledOk ==
  /\ pc = "list"
  /\ Phase = "disable"
  /\ LET vs == freshSlice(versions) \o ListSecretVersions(store, cur, "ENABLED")
         h == [hist EXCEPT ![cur].enabled = vs,
                           ![cur].listedEnabled = TRUE]
     IN /\ versions' = vs
        /\ calls' = Append(calls, Call("ListEnabled", cur, NoVersion, TRUE))
        /\ IF Len(vs) = 0
           THEN \* versions[0]: index out of range
                /\ pc' = "panicIndex"
                /\ hist' = h
                /\ UNCHANGED <<si, ph, vi, log>>
           ELSE IF hasOthers(vs) /\ Len(othersOf(vs)) > 0
           THEN /\ pc' = "loop"
                /\ vi' = 1
                /\ hist' = h
                /\ log' = Emit(log, "debug", "latest", vs[1].Name)
                /\ UNCHANGED <<si, ph>>
           ELSE /\ Return(h, Emit(log, "debug", "latest", vs[1].Name))
                /\ UNCHANGED vi
  /\ UNCHANGED <<store, store0, flags, client, secrets,
                 versionsDisabled, rerun>>

\* lines 270-285: it.Next fails after n versions were appended
listEnabledFail ==
  /\ pc = "list"
  /\ Phase = "disable"
  /\ LET full == ListSecretVersions(store, cur, "ENABLED")
     IN \E n \in 0..Len(full) :
          versions' = freshSlice(versions) \o SubSeq(full, 1, n)
  /\ calls' = Append(calls, Call("ListEnabled", cur, NoVersion, FALSE))
  /\ log' = Emit(log, "fatal", "listVersionsFailed", NoVersion)
  /\ Fatal
  /\ UNCHANGED <<store, store0, flags, client, secrets, si, ph,
                 versionsDisabled, vi, hist, rerun>>

\* one iteration of the loop of lines 295-326 whose call, if any, succeeds;
\* dry is the value of the dry-run flag the iteration tests
disableIteration(dry) ==
  /\ pc = "loop"
  /\ Phase = "disable"
  /\ LET others == othersOf(versions)
         version == others[vi]
         h == [hist EXCEPT ![cur].selDisable = Append(@, version)]
         l == IF dry
              THEN Emit(log, "debug", "toDisable", version.Name)
              ELSE Emit(Emit(log, "info", "disabled", version.Name),
                        "debug", "disableResponse", version.Name)
     IN /\ IF dry
           THEN UNCHANGED <<store, calls>>
           ELSE /\ store' = DisableSecretVersion(store, version.Name)
                /\ calls' = Append(calls, Call("Disable", cur, version.Name, TRUE))
        /\ IF vi < Len(others)
           THEN /\ vi' = vi + 1
                /\ hist' = h
                /\ log' = l
                /\ UNCHANGED <<pc, si, ph>>
           ELSE /\ Return(h, l)
                /\ UNCHANGED vi
  /\ UNCHANGED <<store0, flags, client, secrets, versions,
                 versionsDisabled, rerun>>

\* seeded fault: the loop never tests dryrun
disableStep_IgnoresDryRun == disableIteration(FALSE)

disableStep == disableIteration(dryrun)

\* lines 307-314: the disable call fails
disableFail ==
  /\ pc = "loop"
  /\ Phase = "disable"
  /\ ~dryrun
  /\ LET version == othersOf(versions)[vi]
     IN /\ calls' = Append(calls, Call("Disable", cur, version.Name, FALSE))
        /\ hist' = [hist EXCEPT ![cur].selDisable = Append(@, version)]
        /\ log' = Emit(log, "fatal", "disableFailed", version.Name)
  /\ Fatal
  /\ UNCHANGED <<store, store0, flags, client, secrets, si, ph, versions,
                 versionsDisabled, vi, rerun>>

\* destroyDisabledVersions, lines 331-355: list the DISABLED versions, test
\* the guard, enter the loop over versionsDisabled[keepVersions:]
listDisabledOk ==
  /\ pc = "list"
  /\ Phase = "destroy"
  /\ LET vd == freshSlice(versionsDisabled)
                 \o ListSecretVersions(store, cur, "DISABLED")
         h == [hist EXCEPT ![cur].disabled = vd,
                           ![cur].listedDisabled = TRUE]
     IN /\ versionsDisabled' = vd
        /\ calls' = Append(calls, Call("ListDisabled", cur, NoVersion, TRUE))
        /\ IF moreThanKept(vd, keepVersions) /\ keepVersions < 0
           THEN \* versionsDisabled[keepVersions:]: slice bounds out of range
                /\ pc' = "panicSlice"
                /\ hist' = h
                /\ UNCHANGED <<si, ph, vi, log>>
           ELSE IF /\ moreThanKept(vd, keepVersions)
                   /\ Len(destroySelection(vd, keepVersions)) > 0
           THEN /\ pc' = "loop"
                /\ vi' = 1
                /\ hist' = h
                /\ UNCHANGED <<si, ph, log>>
           ELSE /\ Return(h, log)
                /\ UNCHANGED vi
  /\ UNCHANGED <<store, store0, flags, client, secrets, versions, rerun>>

\* seeded fault: each version is destroyed as soon as the iterator returns
\* it, so the first one is gone when a later it.Next fails
listDisabledFail_Streams ==
  /\ pc = "list"
  /\ Phase = "destroy"
  /\ ~dryrun
  /\ LET full == ListSecretVersions(store, cur, "DISABLED")
     IN /\ Len(full) >= 1
        /\ versionsDisabled' = SubSeq(full, 1, 1)
        /\ store' = DestroySecretVersion(store, full[1].Name)
        /\ calls' = calls \o <<Call("Destroy", cur, full[1].Name, TRUE),
                               Call("ListDisabled", cur, NoVersion, FALSE)>>
  /\ log' = Emit(log, "fatal", "listVersionsFailed", NoVersion)
  /\ Fatal
  /\ UNCHANGED <<store0, flags, client, secrets, si, ph, versions,
                 vi, hist, rerun>>

\* lines 339-352: it.Next fails after n versions were appended
listDisabledFail ==
  /\ pc = "list"
  /\ Phase = "destroy"
  /\ LET full == ListSecretVersions(store, cur, "DISABLED")
     IN \E n \in 0..Len(full) :
          versionsDisabled' = freshSlice(versionsDisabled) \o SubSeq(full, 1, n)
  /\ calls' = Append(calls, Call("ListDisabled", cur, NoVersion, FALSE))
  /\ log' = Emit(log, "fatal", "listVersionsFailed", NoVersion)
  /\ Fatal
  /\ UNCHANGED <<store, store0, flags, client, secrets, si, ph, versions,
                 vi, hist, rerun>>

\* one iteration of the loop of lines 355-385 whose call, if any, succeeds
destroyIteration(dry) ==
  /\ pc = "loop"
  /\ Phase = "destroy"
  /\ LET selected == destroySelection(versionsDisabled, keepVersions)
         version == selected[vi]
         h == [hist EXCEPT ![cur].selDestroy = Append(@, version)]
         l == IF dry
              THEN Emit(log, "debug", "toDestroy", version.Name)
              ELSE Emit(Emit(log, "info", "destroyed", version.Name),
                        "debug", "destroyResponse", version.Name)
     IN /\ IF dry
           THEN UNCHANGED <<store, calls>>
           ELSE /\ store' = DestroySecretVersion(store, version.Name)
                /\ calls' = Append(calls, Call("Destroy", cur, version.Name, TRUE))
        /\ IF vi < Len(selected)
           THEN /\ vi' = vi + 1
                /\ hist' = h
                /\ log' = l
                /\ UNCHANGED <<pc, si, ph>>
           ELSE /\ Return(h, l)
                /\ UNCHANGED vi
  /\ UNCHANGED <<store0, flags, client, secrets, versions,
                 versionsDisabled, rerun>>

destroyStep == destroyIteration(dryrun)

\* seeded fault: the failure is logged at Error level and the loop goes on
destroyFail_Continues ==
  /\ pc = "loop"
  /\ Phase = "destroy"
  /\ ~dryrun
  /\ LET selected == destroySelection(versionsDisabled, keepVersions)
         version == selected[vi]
         h == [hist EXCEPT ![cur].selDestroy = Append(@, version)]
         l == Emit(log, "error", "destroyFailed", version.Name)
     IN /\ calls' = Append(calls, Call("Destroy", cur, version.Name, FALSE))
        /\ IF vi < Len(selected)
           THEN /\ vi' = vi + 1
                /\ hist' = h
                /\ log' = l
                /\ UNCHANGED <<pc, si, ph>>
           ELSE /\ Return(h, l)
                /\ UNCHANGED vi
  /\ UNCHANGED <<store, store0, flags, client, secrets, versions,
                 versionsDisabled, rerun>>

\* lines 366-373: the destroy call fails
destroyFail ==
  /\ pc = "loop"
  /\ Phase = "destroy"
  /\ ~dryrun
  /\ LET version == destroySelection(versionsDisabled, keepVersions)[vi]
     IN /\ calls' = Append(calls, Call("Destroy", cur, version.Name, FALSE))
        /\ hist' = [hist EXCEPT ![cur].selDestroy = Append(@, version)]
        /\ log' = Emit(log, "fatal", "destroyFailed", version.Name)
  /\ Fatal
  /\ UNCHANGED <<store, store0, flags, client, secrets, si, ph, versions,
                 versionsDisabled, vi, rerun>>

\* the cleaner is started again, with the same flags, after a run that
\* reached "Stopping the secrets cleaner"
startAgain ==
  /\ pc = "done"
  /\ ~rerun
  /\ rerun' = TRUE
  /\ pc' = "start"
  /\ client' = FALSE
  /\ log' = <<>>
  /\ store0' = store
  /\ calls' = <<>>
  /\ hist' = EmptyHist
  /\ secrets' = <<>>
  /\ si' = 0
  /\ ph' = 1
  /\ versions' = <<>>
  /\ versionsDisabled' = <<>>
  /\ vi' = 0
  /\ UNCHANGED <<store, flags>>

Next ==
  \/ usageExit
  \/ newClientOk
  \/ newClientFail
  \/ listSecretsOk
  \/ listSecretsFail
  \/ listEnabledOk
  \/ listEnabledFail
  \/ disableStep
  \/ disableFail
  \/ listDisabledOk
  \/ listDisabledFail
  \/ destroyStep
  \/ destroyFail
  \/ startAgain

\* ------------------------------------------------------------ the catalogs
\* creation time of the n-th version created under a secret
StdTime(n) == <<90 + 10 * (n \div 2), 5 * (n % 2)>>

Version(s, n, time, state) ==
  [Name |-> <<s, n>>, CreateTimeSeconds |-> time[1], CreateTimeNanos |-> time[2],
   state |-> state]

\* the catalogs of one secret with n versions, listed newest first: the
\* k-th created version is listed at position n - k + 1
SecretCatalogs(s, n) ==
  {[p \in 1..n |-> Version(s, n - p + 1, StdTime(n - p + 1), sts[p])] :
     sts \in [1..n -> VersionStates]}

\* the catalogs of the secrets S holding at most budget versions together
RECURSIVE SortedCatalogs(_, _)
SortedCatalogs(S, budget) ==
  IF S = {} THEN {<<>>}
  ELSE LET s == CHOOSE x \in S : TRUE
       IN UNION {{f @@ (s :> c) : f \in SortedCatalogs(S \ {s}, budget - n),
                                  c \in SecretCatalogs(s, n)} :
                 n \in 0..budget}

StartOfRun ==
  /\ pc = "start"
  /\ client = FALSE
  /\ log = <<>>
  /\ store0 = store
  /\ secrets = <<>>
  /\ si = 0
  /\ ph = 1
  /\ versions = <<>>
  /\ versionsDisabled = <<>>
  /\ vi = 0
  /\ calls = <<>>
  /\ hist = EmptyHist
  /\ rerun = FALSE

Init ==
  /\ store \in SortedCatalogs(SecretSet, MaxVersions)
  /\ dryrun \in BOOLEAN
  /\ keepVersions \in KeepValues
  /\ project \in ProjectValues
  /\ debug \in BOOLEAN
  /\ StartOfRun

Spec == Init /\ [][Next]_vars

\* -------------------------------------------- catalogs listed in any order
\* versions per project in the catalogs whose listing order is arbitrary
MaxListed == 3

\* the catalogs of one secret with n ENABLED or DISABLED versions whose
\* creation times bear no relation to the listing order (DESTROYED versions
\* are never listed and are left out)
UnorderedSecretCatalogs(s, n) ==
  {[p \in 1..n |-> Version(s, p, tms[p], sts[p])] :
     tms \in [1..n -> TimeValues], sts \in [1..n -> {"ENABLED", "DISABLED"}]}

RECURSIVE UnorderedCatalogs(_, _)
UnorderedCatalogs(S, budget) ==
  IF S = {} THEN {<<>>}
  ELSE LET s == CHOOSE x \in S : TRUE
       IN UNION {{f @@ (s :> c) : f \in UnorderedCatalogs(S \ {s}, budget - n),
                                  c \in UnorderedSecretCatalogs(s, n)} :
                 n \in 0..budget}

InitAnyOrder ==
  /\ store \in UnorderedCatalogs(SecretSet, MaxListed)
  /\ dryrun \in BOOLEAN
  /\ keepVersions \in KeepValues
  /\ project \in ProjectValues
  /\ debug \in BOOLEAN
  /\ StartOfRun

SpecAnyOrder == InitAnyOrder /\ [][Next]_vars

\* ------------------------------------------------------------- properties
\* the call of main for phase name has returned for secret s in this run
PhaseReturned(s, name) ==
  \E k \in 1..hist[s].returned : sweepPhases[k] = name

\* both calls of main for secret s have returned in this run
Swept(s) == hist[s].returned = Len(sweepPhases)

CallsOn(op, name) ==
  {i \in 1..Len(calls) : calls[i].op = op /\ calls[i].version = name}

Mutating == {"Disable", "Destroy"}

\* C1: after a live sweep of a secret that completed, at most one version of
\* the secret is ENABLED and at most keepVersions are DISABLED (keep >= 0).
C1_RetentionAfterSweep ==
  \A s \in SecretSet :
    (~dryrun /\ keepVersions >= 0 /\ Swept(s)) =>
      /\ CountIn(store, s, "ENABLED") <= 1
      /\ CountIn(store, s, "DISABLED") <= keepVersions

\* C1 witness: a completed live sweep that disabled and destroyed versions
C1_Witness ==
  \E s \in SecretSet :
    /\ ~dryrun /\ Swept(s) /\ ~rerun
    /\ CountIn(store0, s, "ENABLED") >= 2
    /\ CountIn(store0, s, "DISABLED") >= 1
    /\ Len(hist[s].selDestroy) >= 2
    /\ keepVersions >= 1

\* C2: a live sweep of a secret that had an ENABLED version ends with exactly
\* one ENABLED version; the latest (versions[0]) got no disable and no destroy
\* request, and every other listed ENABLED version got exactly one disable
\* request.
C2_ExactlyOneEnabledSurvives ==
  \A s \in SecretSet :
    (~dryrun /\ Swept(s) /\ CountIn(store0, s, "ENABLED") >= 1) =>
      /\ CountIn(store, s, "ENABLED") = 1
      /\ Len(hist[s].enabled) >= 1
      /\ \A op \in Mutating : CallsOn(op, hist[s].enabled[1].Name) = {}
      /\ StateOf(store, hist[s].enabled[1].Name) = "ENABLED"
      /\ \A k \in 2..Len(hist[s].enabled) :
           Cardinality(CallsOn("Disable", hist[s].enabled[k].Name)) = 1

\* C2 witness: a completed live sweep of a secret listing three ENABLED versions
C2_Witness ==
  \E s \in SecretSet :
    /\ ~dryrun /\ Swept(s) /\ ~rerun
    /\ Len(hist[s].enabled) >= 3
    /\ Len(hist[s].selDisable) = Len(hist[s].enabled) - 1

\* the listed ENABLED versions of s the disable phase did not select
Kept(s) ==
  {k \in 1..Len(hist[s].enabled) :
     \A j \in 1..Len(hist[s].selDisable) :
        hist[s].selDisable[j].Name # hist[s].enabled[k].Name}

\* the disable phase for s kept exactly one listed version, it is at least as
\* new as every other listed version, and the phase selected all the others
KeepsTheNewest(s) ==
  /\ Cardinality(Kept(s)) = 1
  /\ Len(hist[s].selDisable) = Len(hist[s].enabled) - 1
  /\ \A k \in Kept(s) : \A j \in 1..Len(hist[s].enabled) :
       TimeGeq(hist[s].enabled[k], hist[s].enabled[j])

\* C3 as claimed: for every non-empty ENABLED listing, in any order, the
\* disable phase keeps exactly one version whose (seconds, nanos) is >= that
\* of every other listed version and selects exactly the others.
C3_LatestInAnyOrder ==
  \A s \in SecretSet :
    (PhaseReturned(s, "disable") /\ Len(hist[s].enabled) >= 1) =>
      KeepsTheNewest(s)

\* C3 as amended: the same for every non-empty ENABLED listing that the
\* store returns newest first; the version kept is the first listed one.
C3_LatestWhenNewestFirst ==
  \A s \in SecretSet :
    (/\ PhaseReturned(s, "disable")
     /\ Len(hist[s].enabled) >= 1
     /\ NewestFirst(hist[s].enabled)) =>
      /\ KeepsTheNewest(s)
      /\ Kept(s) = {1}

\* C3 witness: three ENABLED versions listed newest first, not all created
\* at once, the last two disabled
C3_Witness ==
  \E s \in SecretSet :
    /\ PhaseReturned(s, "disable")
    /\ Len(hist[s].enabled) = 3
    /\ NewestFirst(hist[s].enabled)
    /\ ~TimeGeq(hist[s].enabled[3], hist[s].enabled[1])
    /\ hist[s].enabled[1].CreateTimeSeconds = hist[s].enabled[2].CreateTimeSeconds
    /\ Len(hist[s].selDisable) = 2

\* C4 as claimed: an empty ENABLED listing is a non-error no-op: the call
\* returns without a crash and main goes on to the destroy phase.
C4_EmptyEnabledIsNoOp ==
  \A s \in SecretSet :
    (hist[s].listedEnabled /\ Len(hist[s].enabled) = 0) =>
      /\ pc # "panicIndex"
      /\ PhaseReturned(s, "disable")

\* C5: for a DISABLED listing of length L and keep count K >= 0 the destroy
\* phase selects exactly the versions at positions K+1..L of the listing
\* (1-based), max(0, L-K) of them.
C5_DestroysBeyondKeep ==
  \A s \in SecretSet :
    (keepVersions >= 0 /\ PhaseReturned(s, "destroy")) =>
      LET L == Len(hist[s].disabled)
          K == keepVersions
      IN /\ Len(hist[s].selDestroy) = Max(0, L - K)
         /\ \A k \in 1..Len(hist[s].selDestroy) :
              hist[s].selDestroy[k] = hist[s].disabled[K + k]

\* C5 witness: a listing longer than a positive keep count, destroy phase done
C5_Witness ==
  \E s \in SecretSet :
    /\ PhaseReturned(s, "destroy")
    /\ keepVersions >= 1
    /\ Len(hist[s].disabled) >= keepVersions + 2
    /\ Len(hist[s].selDestroy) >= 2

ListOps == {"ListSecrets", "ListEnabled", "ListDisabled"}

\* C6: in dry-run mode the run issues list calls only, and every version
\* keeps the state it had when the run started.
C6_DryRunMutatesNothing ==
  dryrun =>
    /\ store = store0
    /\ \A i \in 1..Len(calls) : calls[i].op \in ListOps

\* C6 witness: a dry run that ended after selecting versions in both phases
C6_Witness ==
  /\ dryrun
  /\ pc = "done"
  /\ \E s \in SecretSet : Len(hist[s].selDisable) >= 1
  /\ \E s \in SecretSet : Len(hist[s].selDestroy) >= 1

\* what a sweep of s selects for disable when it starts from the catalog st
SelectedForDisable(st, s) ==
  LET vs == ListSecretVersions(st, s, "ENABLED")
  IN IF Len(vs) >= 1 /\ hasOthers(vs) THEN othersOf(vs) ELSE <<>>

\* what a sweep of s selects for destroy when its destroy phase lists st
SelectedForDestroy(st, s) ==
  LET vd == ListSecretVersions(st, s, "DISABLED")
  IN IF moreThanKept(vd, keepVersions) THEN destroySelection(vd, keepVersions)
     ELSE <<>>

\* a dry-run sweep selects what the catalog at the start of the run gives
DryRunSelectsFromStart ==
  \A s \in SecretSet :
    (dryrun /\ Swept(s)) =>
      /\ hist[s].selDisable = SelectedForDisable(store0, s)
      /\ hist[s].selDestroy = SelectedForDestroy(store0, s)

\* C7 as claimed: a live sweep selects for disable and for destroy exactly
\* what the dry-run sweep selects from the same starting catalog.
C7_SameSelections ==
  \A s \in SecretSet :
    Swept(s) =>
      /\ hist[s].selDisable = SelectedForDisable(store0, s)
      /\ hist[s].selDestroy = SelectedForDestroy(store0, s)

\* secret s holds exactly one ENABLED and at most keepVersions DISABLED versions
Steady(st, s) ==
  /\ CountIn(st, s, "ENABLED") = 1
  /\ CountIn(st, s, "DISABLED") <= keepVersions

\* C8: a sweep of a secret that is at steady state selects nothing and issues
\* no mutating call for it; a live run started right after a live run that
\* ended normally issues no mutating call and changes no version.
C8_Idempotent ==
  /\ \A s \in SecretSet :
       (keepVersions >= 0 /\ Steady(store0, s)) =>
         /\ hist[s].selDisable = <<>>
         /\ hist[s].selDestroy = <<>>
         /\ \A i \in 1..Len(calls) :
              calls[i].secret = s => calls[i].op \notin Mutating
         /\ store[s] = store0[s]
  /\ (rerun /\ ~dryrun) =>
       /\ \A i \in 1..Len(calls) : calls[i].op \notin Mutating
       /\ store = store0

\* C8 witness: the second of two live runs ended, over a secret that retains
\* a DISABLED and holds a DESTROYED version
C8_Witness ==
  /\ rerun
  /\ ~dryrun
  /\ pc = "done"
  /\ keepVersions >= 1
  /\ \E s \in SecretSet :
       /\ Swept(s)
       /\ CountIn(store, s, "DISABLED") = keepVersions
       /\ CountIn(store, s, "DESTROYED") >= 1

\* C9: a failed store call is the last store call of the run and the run is
\* over (fatal); what was acknowledged before it stays applied.
C9_FailFast ==
  /\ \A i \in 1..Len(calls) :
       ~calls[i].ok => (i = Len(calls) /\ pc = "fatal")
  /\ (pc = "fatal" /\ client) => (Len(calls) >= 1 /\ ~calls[Len(calls)].ok)
  /\ \A i \in 1..Len(calls) :
       /\ (calls[i].ok /\ calls[i].op = "Disable") =>
            StateOf(store, calls[i].version) # "ENABLED"
       /\ (calls[i].ok /\ calls[i].op = "Destroy") =>
            StateOf(store, calls[i].version) = "DESTROYED"

\* C9 witness: a destroy call failed on the first secret after a disable and
\* a destroy call had been acknowledged; the second secret was never listed
C9_Witness ==
  /\ pc = "fatal"
  /\ si = 1
  /\ Len(secrets) = 2
  /\ calls[Len(calls)].op = "Destroy"
  /\ \E i, j \in 1..(Len(calls) - 1) :
       /\ calls[i].op = "Disable" /\ calls[i].ok
       /\ calls[j].op = "Destroy" /\ calls[j].ok
  /\ \A i \in 1..Len(calls) : calls[i].secret # secrets[2]

\* C10: for each secret no disable call follows the DISABLED listing or a
\* destroy call of that secret, the ENABLED listing precedes them all, and
\* every disable call that precedes them was acknowledged.
C10_DisableBeforeDestroy ==
  \A i, j \in 1..Len(calls) :
    /\ (/\ i < j
        /\ calls[i].secret = calls[j].secret
        /\ calls[i].op \in {"ListDisabled", "Destroy"}) =>
         calls[j].op \notin {"Disable", "ListEnabled"}
    /\ (/\ i < j
        /\ calls[i].secret = calls[j].secret
        /\ calls[i].op = "Disable"
        /\ calls[j].op \in {"ListDisabled", "Destroy"}) =>
         calls[i].ok

\* C10 witness: two disable calls, then the DISABLED listing, then a destroy
\* call, all for one secret
C10_Witness ==
  \E i, j, k, l \in 1..Len(calls) :
    /\ i < j /\ j < k /\ k < l
    /\ calls[i].op = "Disable" /\ calls[j].op = "Disable"
    /\ calls[k].op = "ListDisabled" /\ calls[l].op = "Destroy"
    /\ calls[i].secret = calls[l].secret
    /\ calls[j].secret = calls[l].secret
    /\ calls[k].secret = calls[l].secret

\* position of secret s in the listing main received
IndexOf(s) == CHOOSE k \in 1..Len(secrets) : secrets[k] = s

\* C11: the secrets are listed first, once; then every listed secret is
\* swept once, one after the other in listing order: the calls of a secret
\* never precede a call of a secret listed before it.
C11_SequentialInListingOrder ==
  /\ \A i \in 1..Len(calls) : (calls[i].op = "ListSecrets") <=> (i = 1)
  /\ \A i, j \in 2..Len(calls) :
       i < j => IndexOf(calls[i].secret) <= IndexOf(calls[j].secret)
  /\ \A s \in SecretSet : \A op \in {"ListEnabled", "ListDisabled"} :
       Cardinality({i \in 1..Len(calls) :
                      calls[i].op = op /\ calls[i].secret = s}) <= 1
  /\ pc = "done" =>
       \A k \in 1..Len(secrets) :
         /\ Swept(secrets[k])
         /\ \A op \in {"ListEnabled", "ListDisabled"} :
              \E i \in 1..Len(calls) :
                calls[i].op = op /\ calls[i].secret = secrets[k] /\ calls[i].ok

\* C11 witness: a live run that ended after disabling a version of each of
\* two secrets
C11_Witness ==
  /\ pc = "done"
  /\ Len(secrets) = 2
  /\ \A k \in 1..2 :
       \E i \in 1..Len(calls) :
         calls[i].op = "Disable" /\ calls[i].secret = secrets[k]

\* a version in state a may be found in state b one step later
Forward(a, b) ==
  \/ a = b
  \/ a = "ENABLED" /\ b = "DISABLED"
  \/ a = "DISABLED" /\ b = "DESTROYED"

\* C12: in every step each version keeps its state or moves ENABLED ->
\* DISABLED or DISABLED -> DESTROYED; so none becomes ENABLED again and a
\* DESTROYED version never changes.
C12_StatesMoveForward ==
  [][\A s \in SecretSet :
       /\ Len(store'[s]) = Len(store[s])
       /\ \A i \in 1..Len(store[s]) :
            /\ store'[s][i].Name = store[s][i].Name
            /\ Forward(store[s][i].state, store'[s][i].state)]_vars

\* C12 witness: a version that was ENABLED when the run started is DESTROYED,
\* beside one that was DESTROYED from the start
C12_Witness ==
  \E s \in SecretSet : \E i, j \in 1..Len(store[s]) :
    /\ store0[s][i].state = "ENABLED" /\ store[s][i].state = "DESTROYED"
    /\ store0[s][j].state = "DESTROYED" /\ store[s][j].state = "DESTROYED"

\* catalogs listed newest first in which versions may share a creation time
InitTies ==
  /\ InitAnyOrder
  /\ \A s \in SecretSet : NewestFirst(store[s])

SpecTies == InitTies /\ [][Next]_vars

\* the listed ENABLED versions of s that carry the greatest creation time
Greatest(s) ==
  {k \in 1..Len(hist[s].enabled) :
     \A j \in 1..Len(hist[s].enabled) :
        TimeGeq(hist[s].enabled[k], hist[s].enabled[j])}

\* C13: when several listed ENABLED versions share the greatest (seconds,
\* nanos) pair, the disable phase keeps the one of them the store listed
\* first, and only it; the others of them are selected for disable.
C13_TieKeepsFirstListed ==
  \A s \in SecretSet :
    (PhaseReturned(s, "disable") /\ Cardinality(Greatest(s)) >= 2) =>
      /\ Kept(s) = {k \in Greatest(s) : \A j \in Greatest(s) : k <= j}
      /\ Kept(s) = {1}
      /\ \A k \in Greatest(s) \ {1} :
           \E j \in 1..Len(hist[s].selDisable) :
             hist[s].selDisable[j] = hist[s].enabled[k]

\* C13 witness: the two newest of three listed ENABLED versions were created
\* at the same instant; the second and the third were selected
C13_Witness ==
  \E s \in SecretSet :
    /\ PhaseReturned(s, "disable")
    /\ Len(hist[s].enabled) = 3
    /\ Greatest(s) = {1, 2}
    /\ Len(hist[s].selDisable) = 2

\* the entries of the log that report the decision msgs made about a version
Logged(msgs, name) ==
  {k \in 1..Len(log) : log[k].msg \in msgs /\ log[k].version = name}

\* C14: every version selected for disable and every version selected for
\* destroy is named by one log entry, "disabled"/"destroyed" (or the fatal
\* entry of the failed call) in a live run and the intent entry in a dry run,
\* whatever the debug flag is.
C14_EveryDecisionLogged ==
  \A s \in SecretSet :
    /\ \A j \in 1..Len(hist[s].selDisable) :
         Cardinality(Logged({"disabled", "toDisable", "disableFailed"},
                            hist[s].selDisable[j].Name)) = 1
    /\ \A j \in 1..Len(hist[s].selDestroy) :
         Cardinality(Logged({"destroyed", "toDestroy", "destroyFailed"},
                            hist[s].selDestroy[j].Name)) = 1

\* C15: with an empty project the run ends at the usage text with a nonzero
\* exit: no client is created, no call reaches the store (no listing, no
\* disable, no destroy), no version changes and nothing is logged.
C15_NoProjectNoCall ==
  project = "" =>
    /\ pc \in {"start", "usage"}
    /\ ~client
    /\ calls = <<>>
    /\ secrets = <<>>
    /\ store = store0
    /\ log = <<>>

\* C15 witness: a run without project has printed the usage text and exited
\* over a project that holds versions
C15_Witness ==
  /\ project = ""
  /\ pc = "usage"
  /\ \E s \in SecretSet : Len(store[s]) >= 2

\* C16: in a live sweep the destroy phase lists the DISABLED versions as they
\* are after the disable phase: its listing is the DISABLED listing of the
\* start of the run plus every version the disable phase disabled, each of
\* these counts toward keepVersions, and with keepVersions = 0 each of them is
\* DESTROYED when the sweep has returned.
C16_DestroyListsAfterDisable ==
  \A s \in SecretSet :
    (~dryrun /\ hist[s].listedDisabled) =>
      /\ \A j \in 1..Len(hist[s].selDisable) :
           \E k \in 1..Len(hist[s].disabled) :
             hist[s].disabled[k] = hist[s].selDisable[j]
      /\ Len(hist[s].disabled) =
           CountIn(store0, s, "DISABLED") + Len(hist[s].selDisable)
      /\ (Swept(s) /\ keepVersions >= 0) =>
           \A k \in (keepVersions + 1)..Len(hist[s].disabled) :
             StateOf(store, hist[s].disabled[k].Name) = "DESTROYED"
      /\ (Swept(s) /\ keepVersions = 0) =>
           \A j \in 1..Len(hist[s].selDisable) :
             StateOf(store, hist[s].selDisable[j].Name) = "DESTROYED"

\* C16 witness: a live sweep with keepVersions = 0 disabled two versions and
\* returned with both of them DESTROYED
C16_Witness ==
  \E s \in SecretSet :
    /\ ~dryrun
    /\ keepVersions = 0
    /\ Swept(s)
    /\ Len(hist[s].selDisable) = 2
    /\ \A j \in 1..2 : StateOf(store, hist[s].selDisable[j].Name) = "DESTROYED"

\* the list call whose result a mutating call acts upon
ListOpOf(op) == IF op = "Disable" THEN "ListEnabled" ELSE "ListDisabled"

\* C17: a listing is acted upon only when its iterator returned Done. Every
\* version listing follows the complete listing of the secrets; every disable
\* or destroy call follows a version listing of its phase and secret that
\* succeeded and holds every version the store had in that state; a listing
\* that fails, on whatever page, ends the run with no mutating call of that
\* phase for that secret.
C17_ListingsDrainedFirst ==
  /\ \A i \in 1..Len(calls) :
       calls[i].op # "ListSecrets" =>
         /\ calls[1] = Call("ListSecrets", "project", NoVersion, TRUE)
         /\ secrets = SecretNames
  /\ \A i \in 1..Len(calls) :
       calls[i].op \in Mutating =>
         /\ \E k \in 1..(i - 1) :
              calls[k] = Call(ListOpOf(calls[i].op), calls[i].secret,
                              NoVersion, TRUE)
         /\ \A k \in 1..Len(calls) :
              (calls[k].op = ListOpOf(calls[i].op)
                 /\ calls[k].secret = calls[i].secret) => calls[k].ok
  /\ \A s \in SecretSet :
       /\ hist[s].listedEnabled =>
            Len(hist[s].enabled) = CountIn(store0, s, "ENABLED")
       /\ hist[s].listedDisabled =>
            Len(hist[s].disabled) =
              CountIn(store0, s, "DISABLED")
                + (IF dryrun THEN 0 ELSE Len(hist[s].selDisable))
  /\ \A i \in 1..Len(calls) :
       (calls[i].op \in ListOps /\ ~calls[i].ok) =>
         /\ i = Len(calls)
         /\ pc = "fatal"

\* C17 witness: in a live run the DISABLED listing failed after it had
\* returned more versions than are kept; the run ended and no destroy call
\* was made for that secret
C17_Witness ==
  /\ ~dryrun
  /\ pc = "fatal"
  /\ Len(calls) >= 1
  /\ calls[Len(calls)].op = "ListDisabled"
  /\ ~calls[Len(calls)].ok
  /\ Len(versionsDisabled) >= 1
  /\ Len(versionsDisabled) > keepVersions
  /\ Len(versionsDisabled) < CountIn(store, calls[Len(calls)].secret, "DISABLED")
  /\ \A i \in 1..Len(calls) :
       ~(calls[i].op = "Destroy" /\ calls[i].secret = calls[Len(calls)].secret)

\* C18: every destroy request, whether it succeeds or fails, names a version
\* that is DISABLED when the request is issued; no ENABLED and no DESTROYED
\* version is sent one.
C18_DestroyTargetsDisabled ==
  [][\A i \in (Len(calls) + 1)..Len(calls') :
       calls'[i].op = "Destroy" =>
         StateOf(store, calls'[i].version) = "DISABLED"]_vars

\* C18 witness: a destroy request was served for a secret that keeps an
\* ENABLED version and already had a DESTROYED one when the run started
C18_Witness ==
  \E i \in 1..Len(calls) :
    /\ calls[i].op = "Destroy"
    /\ calls[i].ok
    /\ StateOf(store, calls[i].version) = "DESTROYED"
    /\ CountIn(store, calls[i].secret, "ENABLED") = 1
    /\ CountIn(store0, calls[i].secret, "DESTROYED") >= 1

\* the names of the records of a listing
NamesOf(vs) == {vs[k].Name : k \in 1..Len(vs)}

\* C19: a step taken during the sweep of the current secret changes the
\* versions of no other secret; every disable or destroy request it issues
\* names a version of the current secret that the listing of that phase
\* returned in this sweep; and the slice a loop ranges over holds records of
\* the secret being swept only.
C19_SweepTouchesOwnSecretOnly ==
  [][/\ \A s \in SecretSet :
          store'[s] # store[s] => (pc = "loop" /\ s = cur)
     /\ \A i \in (Len(calls) + 1)..Len(calls') :
          calls'[i].op \in Mutating =>
            /\ calls'[i].secret = cur
            /\ calls'[i].version[1] = cur
            /\ calls'[i].version \in
                 NamesOf(IF calls'[i].op = "Disable" THEN hist[cur].enabled
                         ELSE hist[cur].disabled)
     /\ pc' = "loop" =>
          \A name \in NamesOf(IF sweepPhases[ph'] = "disable" THEN versions'
                              ELSE versionsDisabled') :
            name[1] = secrets'[si']]_vars

\* C19 witness: the live run made a request on a version of the first secret
\* and then one on a version of the second secret, whose loop is running
C19_Witness ==
  /\ pc = "loop"
  /\ si = 2
  /\ \E i, j \in 1..Len(calls) :
       /\ i < j
       /\ calls[i].op \in Mutating
       /\ calls[i].version[1] = secrets[1]
       /\ calls[j].op \in Mutating
       /\ calls[j].version[1] = secrets[2]

\* C20: for every value of keepVersions the flag delivers and every DISABLED
\* listing, versionsDisabled[keepVersions:] is evaluated (the guard of line
\* 354 holds) only with 0 <= keepVersions <= len(versionsDisabled), and the
\* destroy phase never stops on a slice bound out of range.
C20_SliceWithinBounds ==
  /\ pc # "panicSlice"
  /\ \A s \in SecretSet :
       (hist[s].listedDisabled /\ moreThanKept(hist[s].disabled, keepVersions)) =>
         /\ 0 <= keepVersions
         /\ keepVersions <= Len(hist[s].disabled)

\* the process runs on its own thread until it exits: a step that is possible
\* is taken
SpecFair == Init /\ [][Next]_vars /\ WF_vars(Next)

\* the run has ended with "Stopping the secrets cleaner" or with a fatal exit
\* (a failed call, or the usage text of a run without project)
EndedAsSpecified == pc \in {"done", "fatal", "usage"}

\* the process is gone, by whatever way, a runtime panic included
ProcessGone == EndedAsSpecified \/ pc \in {"panicIndex", "panicSlice"}

\* the versions of the whole catalog
AllNames == UNION {NamesOf(store[s]) : s \in SecretSet}

\* each version received at most one disable and at most one destroy request
\* in the run, and the calls of the run are at most one listing of the
\* secrets, two listings per secret and two requests per version
CallsBounded ==
  /\ \A name \in AllNames :
       /\ Cardinality(CallsOn("Disable", name)) <= 1
       /\ Cardinality(CallsOn("Destroy", name)) <= 1
  /\ Len(calls) <= 1 + 2 * Len(SecretNames) + 2 * Cardinality(AllNames)

\* C21: whatever calls succeed or fail, the run eventually ends, by the
\* "Stopping the secrets cleaner" step after the sweep of every listed secret
\* or by a fatal exit, and until then each version receives at most one
\* disable and one destroy request, so the calls are bounded by the catalog.
C21_RunEndsAsSpecified ==
  /\ <>(EndedAsSpecified /\ (pc = "done" => \A s \in SecretSet : Swept(s)))
  /\ []CallsBounded

\* what holds of the code: the process always goes away, and the calls are
\* bounded
C21_ProcessGoes == <>ProcessGone /\ []CallsBounded

====
